---------------------------- MODULE Spec2Model ----------------------------
(***************************************************************************)
(* Model of the eForms notice extractor and batch runner                   *)
(* (src/01_data-fetcher_py/src/extract_data_from_eforms.py).               *)
(*                                                                         *)
(* A text is a sequence of one-character strings.  A node-set is a         *)
(* sequence of texts in document order: the string-values of the nodes an  *)
(* XPath expression selects.  An optional output value is a sequence of    *)
(* length 0 (Python None) or 1 (the value).                                *)
(***************************************************************************)
EXTENDS Integers, Sequences, FiniteSets, TLC

VARIABLES
    \* extract_single_notice
    xml_content,      \* the document handed to extract_single_notice
    pc,               \* position inside extract_single_notice
    notice,           \* the record under construction
    lr_index,         \* index of the next lot result the loop of line 125 visits
    \* process_zip_to_json
    zip_file,         \* the archive at zip_path: how it opens, and its entries
    bpc,              \* position inside process_zip_to_json
    xml_files,        \* the list built at line 183
    i,                \* enumerate index of the loop at line 188 (1-based)
    successful_count,
    failed_count,
    failed_files,
    output_dir,       \* the files this run wrote into output_dir: [name, by, data]
    errors,           \* messages passed to logger.error, in order
    handled,          \* history: one entry per loop iteration, with its outcome
    ret               \* the returned tuple

evars == <<xml_content, pc, notice, lr_index>>
bvars == <<zip_file, bpc, xml_files, i, successful_count, failed_count,
           failed_files, output_dir, errors, handled, ret>>
vars == <<xml_content, pc, notice, lr_index, zip_file, bpc, xml_files, i,
          successful_count, failed_count, failed_files, output_dir, errors,
          handled, ret>>

-----------------------------------------------------------------------------
(* Bounds of the model *)

MaxLots == 2
MaxLotResults == 2
MaxEntities == 2
MaxEntries == 3

-----------------------------------------------------------------------------
(* Sequences, texts, node-sets *)

SeqsUpTo(S, n) == UNION {[1..k -> S] : k \in 0..n}

Range(s) == {s[j] : j \in DOMAIN s}

NoNode == <<>>
Node(t) == <<t>>
None == <<>>
Some(v) == <<v>>
EmptyText == <<>>

\* All nodes elems[1]/f, elems[2]/f, ... in document order.
RECURSIVE Nodes(_, _)
Nodes(elems, f) ==
    IF elems = <<>> THEN <<>>
    ELSE Head(elems)[f] \o Nodes(Tail(elems), f)

\* XPath string(node-set): the string-value of the first node, "" if none.
XPathString(ns) == IF ns = <<>> THEN EmptyText ELSE Head(ns)

\* `result if result else None`, `... or None`
OrNone(s) == IF s # EmptyText THEN Some(s) ELSE None

\* txt(xpath), lines 27-30
txt(ns) == OrNone(XPathString(ns))

\* attr(xpath, attribute), lines 32-35: the first attribute value, even if empty
attr(ns) == IF ns # <<>> THEN Some(Head(ns)) ELSE None

-----------------------------------------------------------------------------
(* float(text) on the texts of the model's alphabet *)

Digits == {"0", "1", "2", "3", "4", "5", "6", "7", "8", "9"}

DigitValue(c) ==
    CASE c = "0" -> 0 [] c = "1" -> 1 [] c = "2" -> 2 [] c = "3" -> 3
      [] c = "4" -> 4 [] c = "5" -> 5 [] c = "6" -> 6 [] c = "7" -> 7
      [] c = "8" -> 8 [] c = "9" -> 9

CountOf(t, c) == Cardinality({j \in DOMAIN t : t[j] = c})

\* float() accepts digits with at most one point and at least one digit
\* (signs, exponents, blanks, inf and nan are outside the model's alphabet).
FloatParses(t) ==
    /\ \A j \in DOMAIN t : t[j] \in Digits \cup {"."}
    /\ CountOf(t, ".") <= 1
    /\ \E j \in DOMAIN t : t[j] \in Digits

RECURSIVE Mantissa(_)
Mantissa(t) ==
    IF t = <<>> THEN 0
    ELSE IF t[Len(t)] = "." THEN Mantissa(SubSeq(t, 1, Len(t) - 1))
    ELSE 10 * Mantissa(SubSeq(t, 1, Len(t) - 1)) + DigitValue(t[Len(t)])

FractionDigits(t) ==
    IF CountOf(t, ".") = 0 THEN 0
    ELSE Len(t) - (CHOOSE j \in DOMAIN t : t[j] = ".")

\* The float as mantissa / 10^exp.
FloatValue(t) == [mantissa |-> Mantissa(t), exp |-> FractionDigits(t)]

\* num(xpath), lines 37-43: a ValueError is caught
num(ns) ==
    LET text == txt(ns)
    IN  IF text = None THEN None
        ELSE IF FloatParses(text[1]) THEN Some(FloatValue(text[1]))
        ELSE None

\* `float(amount) if amount else None`, lines 152-153: a ValueError escapes
FloatOrNone(s) ==
    IF s = EmptyText THEN [raised |-> FALSE, value |-> None]
    ELSE IF FloatParses(s) THEN [raised |-> FALSE, value |-> Some(FloatValue(s))]
    ELSE [raised |-> TRUE, value |-> None]

\* An identifier spliced between apostrophes into an XPath expression
\* (lines 61 and 143): an odd number of apostrophes leaves a literal
\* unterminated and evaluation raises XPathEvalError.
XPathLiteralOk(id) == CountOf(id, "'") % 2 = 0

-----------------------------------------------------------------------------
(* The parsed document.                                                    *)
(*   header        the nodes of the five header paths (lines 47-51)        *)
(*   cp            the cac:ContractingParty elements                       *)
(*   orgs          the efac:Organization elements                          *)
(*   project       the cac:ProcurementProject children of the root         *)
(*   lots          the cac:ProcurementProjectLot elements, each with its   *)
(*                 own cac:ProcurementProject children                     *)
(*   total_amount, currency   efac:NoticeResult/cbc:TotalAmount and its    *)
(*                 currencyID attribute                                    *)
(*   lot_results   the efac:NoticeResult/efac:LotResult elements           *)
(*   tenders       the efac:LotTender elements that carry a tender id      *)
(*   parties       the efac:TenderingParty elements that carry a party id  *)
(* Elements of one kind are listed in document order; the root's           *)
(* procurement project precedes the lots, as in the UBL schema.            *)
(***************************************************************************)

EmptyDict == <<>>

\* [1] in `//cac:ProcurementProject[1]`: the first such child of one parent
FirstChild(children) == IF children = <<>> THEN <<>> ELSE <<Head(children)>>

RECURSIVE FirstProjectOfEachLot(_)
FirstProjectOfEachLot(lots) ==
    IF lots = <<>> THEN <<>>
    ELSE FirstChild(Head(lots).project) \o FirstProjectOfEachLot(Tail(lots))

\* proj_base, line 74: every cac:ProcurementProject that is the first such
\* child of its parent, anywhere in the document, in document order.
proj_base(doc) == FirstChild(doc.project) \o FirstProjectOfEachLot(doc.lots)

\* cp_base, line 61: the efac:Company of every organization whose
\* organization id equals cp_id.
cp_base(doc, cp_id) == SelectSeq(doc.orgs, LAMBDA o : cp_id \in Range(o.id))

\* Lines 46-51.
Header(doc) ==
    [notice_id |-> txt(doc.header.notice_id),
     issue_date |-> txt(doc.header.issue_date),
     issue_time |-> txt(doc.header.issue_time),
     notice_type |-> txt(doc.header.notice_type),
     regulatory_domain |-> txt(doc.header.regulatory_domain)]

\* Lines 59-71.  The dict {} is EmptyDict, a populated dict is Some(record).
ContractingParty(doc) ==
    LET cp_id == XPathString(Nodes(doc.cp, "org_id"))
    IN  IF cp_id = EmptyText THEN [raised |-> FALSE, value |-> EmptyDict]
        ELSE IF ~XPathLiteralOk(cp_id) THEN [raised |-> TRUE, value |-> EmptyDict]
        ELSE LET base == cp_base(doc, cp_id)
             IN  [raised |-> FALSE,
                  value |-> Some(
                    [name |-> txt(Nodes(base, "name")),
                     city |-> txt(Nodes(base, "city")),
                     postal_code |-> txt(Nodes(base, "postal_code")),
                     nuts_code |-> txt(Nodes(base, "nuts_code")),
                     country_code |-> txt(Nodes(base, "country_code")),
                     website |-> txt(Nodes(base, "website")),
                     buyer_type |-> txt(Nodes(doc.cp, "buyer_type")),
                     activity_type |-> txt(Nodes(doc.cp, "activity_type"))])]

\* Lines 74-88.
Project(doc) ==
    LET base == proj_base(doc)
    IN  [id |-> txt(Nodes(base, "id")),
         name |-> txt(Nodes(base, "name")),
         description |-> txt(Nodes(base, "description")),
         procurement_type |-> txt(Nodes(base, "procurement_type")),
         cpv_code |-> txt(Nodes(base, "cpv_code")),
         location |->
           [street |-> txt(Nodes(base, "street")),
            city |-> txt(Nodes(base, "city")),
            postal_code |-> txt(Nodes(base, "postal_code")),
            nuts_code |-> txt(Nodes(base, "nuts_code")),
            country_code |-> txt(Nodes(base, "country_code"))]]

\* Lines 93-111: lot_base is every cac:ProcurementProject child of the lot.
LotData(lot) ==
    LET lot_base == lot.project
    IN  [id |-> OrNone(XPathString(lot.id)),
         name |-> OrNone(XPathString(Nodes(lot_base, "name"))),
         description |-> OrNone(XPathString(Nodes(lot_base, "description"))),
         procurement_type |-> OrNone(XPathString(Nodes(lot_base, "procurement_type"))),
         cpv_code |-> OrNone(XPathString(Nodes(lot_base, "cpv_code"))),
         planned_period |->
           [start_date |-> OrNone(XPathString(Nodes(lot_base, "start_date"))),
            end_date |-> OrNone(XPathString(Nodes(lot_base, "end_date")))],
         location |->
           [street |-> OrNone(XPathString(Nodes(lot_base, "street"))),
            city |-> OrNone(XPathString(Nodes(lot_base, "city"))),
            postal_code |-> OrNone(XPathString(Nodes(lot_base, "postal_code"))),
            nuts_code |-> OrNone(XPathString(Nodes(lot_base, "nuts_code"))),
            country_code |-> OrNone(XPathString(Nodes(lot_base, "country_code")))]]

\* A variant of ExtractLots that keeps one lot per identifier (the lots
\* collected in a dict keyed by id).
ExtractLotsByIdentifier(doc) ==
    LET kept == SelectSeq([j \in 1..Len(doc.lots) |-> j],
                          LAMBDA j : \A k \in 1..(j - 1) :
                                        doc.lots[k].id # doc.lots[j].id)
    IN  [j \in 1..Len(kept) |-> LotData(doc.lots[kept[j]])]

\* Lines 91-114: one lot_data per element of //cac:ProcurementProjectLot.
ExtractLots(doc) == [j \in 1..Len(doc.lots) |-> LotData(doc.lots[j])]

\* Lines 117-122.
Financial(doc) ==
    [total_amount |-> num(doc.total_amount),
     currency |-> attr(doc.currency),
     lot_results |-> <<>>]

\* Lines 137-147: the node-set of the winner expression.  `=` between
\* node-sets holds when some node of one equals some node of the other.
WinnerNames(doc, tender_id) ==
    LET lot_tenders == SelectSeq(doc.tenders, LAMBDA t : tender_id \in Range(t.id))
        party_ids == Range(Nodes(lot_tenders, "party"))
        tendering == SelectSeq(doc.parties,
                               LAMBDA p : Range(p.id) \cap party_ids # {})
        org_ids == Range(Nodes(tendering, "org"))
        organizations == SelectSeq(doc.orgs,
                                   LAMBDA o : Range(o.id) \cap org_ids # {})
    IN  Nodes(organizations, "name")

\* Lines 132-147.
Winner(doc, lot_result) ==
    LET tender_id == XPathString(lot_result.tender)
    IN  IF tender_id = EmptyText THEN [raised |-> FALSE, value |-> None]
        ELSE IF ~XPathLiteralOk(tender_id) THEN [raised |-> TRUE, value |-> None]
        ELSE [raised |-> FALSE,
              value |-> OrNone(XPathString(WinnerNames(doc, tender_id)))]

\* Lines 127-155: one iteration of the lot-result loop.
LotResultRecord(doc, lot_result) ==
    LET winner == Winner(doc, lot_result)
        higher == FloatOrNone(XPathString(lot_result.higher))
        lower == FloatOrNone(XPathString(lot_result.lower))
    IN  [raised |-> winner.raised \/ higher.raised \/ lower.raised,
         value |->
           [lot_id |-> OrNone(XPathString(lot_result.lot_id)),
            contract_value |-> None,
            higher_tender_amount |-> higher.value,
            lower_tender_amount |-> lower.value,
            winner_name |-> winner.value]]

\* Lines 45-122: everything before the lot-result loop.
Sections(doc) ==
    LET cp == ContractingParty(doc)
    IN  [raised |-> cp.raised,
         value |-> [header |-> Header(doc),
                    contracting_party |-> cp.value,
                    project |-> Project(doc),
                    lots |-> ExtractLots(doc),
                    financial |-> Financial(doc)]]

\* extract_single_notice as one call (lines 12-157), for the batch runner.
RECURSIVE LotResultsFrom(_, _)
LotResultsFrom(doc, results) ==
    IF results = <<>> THEN [raised |-> FALSE, value |-> <<>>]
    ELSE LET first == LotResultRecord(doc, Head(results))
             rest == LotResultsFrom(doc, Tail(results))
         IN  IF first.raised \/ rest.raised THEN [raised |-> TRUE, value |-> <<>>]
             ELSE [raised |-> FALSE, value |-> <<first.value>> \o rest.value]

NoNotice == [header |-> <<>>]

extract_single_notice(doc) ==
    IF ~doc.wellformed THEN [raised |-> TRUE, value |-> NoNotice]
    ELSE LET s == Sections(doc)
             r == LotResultsFrom(doc, doc.lot_results)
         IN  IF s.raised \/ r.raised THEN [raised |-> TRUE, value |-> NoNotice]
             ELSE [raised |-> FALSE,
                   value |-> [s.value EXCEPT !.financial.lot_results = r.value]]

-----------------------------------------------------------------------------
(* Documents the extractor is run on *)

Org(id, name, city) ==
    [id |-> id, name |-> name, city |-> city, postal_code |-> NoNode,
     nuts_code |-> NoNode, country_code |-> NoNode, website |-> NoNode]

Proj(id, description) ==
    [id |-> id, name |-> NoNode, description |-> description,
     procurement_type |-> NoNode, cpv_code |-> NoNode,
     start_date |-> NoNode, end_date |-> NoNode,
     street |-> NoNode, city |-> NoNode, postal_code |-> NoNode,
     nuts_code |-> NoNode, country_code |-> NoNode]

Lot(id, project) == [id |-> id, project |-> project]

CP(org_id, buyer_type) ==
    [org_id |-> org_id, buyer_type |-> buyer_type, activity_type |-> NoNode]

LotResult(lot_id, tender, higher, lower) ==
    [lot_id |-> lot_id, tender |-> tender, higher |-> higher, lower |-> lower]

Tender(id, party) == [id |-> id, party |-> party]

Party(id, org) == [id |-> id, org |-> org]

HeaderOf(notice_id) ==
    [notice_id |-> notice_id, issue_date |-> Node(<<"d">>),
     issue_time |-> NoNode, notice_type |-> Node(<<"t">>),
     regulatory_domain |-> NoNode]

\* One lot, one lot result whose tender T1 links party P1 and organization A.
BaseDoc ==
    [wellformed |-> TRUE,
     header |-> HeaderOf(Node(<<"n">>)),
     cp |-> <<CP(Node(<<"A">>), Node(<<"b">>))>>,
     orgs |-> <<Org(Node(<<"A">>), Node(<<"N">>), Node(<<"c">>))>>,
     project |-> <<Proj(Node(<<"p">>), Node(<<"d">>))>>,
     lots |-> <<Lot(Node(<<"L">>), <<Proj(NoNode, Node(<<"e">>))>>)>>,
     total_amount |-> Node(<<"1">>),
     currency |-> Node(<<"E">>),
     lot_results |-> <<LotResult(Node(<<"L">>), Node(<<"T">>), Node(<<"1">>), NoNode)>>,
     tenders |-> <<Tender(Node(<<"T">>), Node(<<"P">>))>>,
     parties |-> <<Party(Node(<<"P">>), Node(<<"A">>))>>]

AmountNodes ==
    {NoNode, Node(EmptyText), Node(<<"0">>), Node(<<"5">>), Node(<<"x">>),
     Node(<<".">>), Node(<<"1", ".">>), Node(<<".", "5">>)}

TopProjects ==
    {<<>>} \cup
    {<<Proj(id, d)>> : id \in {NoNode, Node(<<"p">>)},
                       d \in {NoNode, Node(EmptyText), Node(<<"d">>)}}

LotElements ==
    {Lot(id, pr) : id \in {NoNode, Node(<<"L">>), Node(<<"M">>)},
                   pr \in {<<>>, <<Proj(NoNode, Node(<<"e">>))>>,
                           <<Proj(Node(<<"q">>), NoNode)>>,
                           <<Proj(Node(<<"q">>), Node(<<"f">>))>>}}

\* Two lots that carry the same identifier.
TwinLots ==
    <<Lot(Node(<<"L">>), <<Proj(NoNode, Node(<<"e">>))>>),
      Lot(Node(<<"L">>), <<Proj(NoNode, Node(<<"f">>))>>)>>

LotResultElements ==
    {LotResult(l, Node(<<"T">>), Node(<<"1">>), NoNode) :
        l \in {NoNode, Node(<<"L">>), Node(<<"M">>)}}
    \cup {LotResult(Node(<<"L">>), t, Node(<<"1">>), NoNode) :
        t \in {NoNode, Node(EmptyText), Node(<<"U">>), Node(<<"'">>)}}
    \cup {LotResult(Node(<<"L">>), Node(<<"T">>), h, NoNode) : h \in AmountNodes}
    \cup {LotResult(Node(<<"L">>), NoNode, NoNode, l) :
        l \in {Node(<<"x">>), Node(<<"5">>)}}
    \cup {LotResult(Node(<<"L">>), Node(<<"U">>), Node(<<"x">>), NoNode)}

TenderElements ==
    {Tender(Node(<<"T">>), p) : p \in {Node(<<"P">>), Node(<<"R">>)}}

PartyElements ==
    {Party(Node(<<"P">>), Node(<<"A">>)), Party(Node(<<"P">>), Node(<<"B">>)),
     Party(Node(<<"R">>), Node(<<"A">>))}

WinnerOrgElements ==
    {Org(Node(<<"A">>), Node(<<"N">>), NoNode), Org(Node(<<"B">>), Node(<<"M">>), NoNode),
     Org(Node(<<"A">>), NoNode, NoNode)}

ContractingParties ==
    {<<>>} \cup
    {<<CP(id, b)>> :
        id \in {NoNode, Node(EmptyText), Node(<<"A">>), Node(<<"U">>), Node(<<"'">>)},
        b \in {NoNode, Node(<<"b">>)}}

BuyerOrgElements ==
    {Org(Node(id), n, c) : id \in {<<"A">>, <<"B">>},
                           n \in {NoNode, Node(<<"N">>), Node(<<"M">>)},
                           c \in {NoNode, Node(<<"c">>)}}

NoticeIds == {NoNode, Node(EmptyText), Node(<<"A">>), Node(<<"B">>)}

MalformedDoc == [BaseDoc EXCEPT !.wellformed = FALSE]

\* The documents the extractor is run on: BaseDoc with one group of sections
\* varied, or bytes that do not parse.
IsDocument(doc) ==
    \/ \E pr \in TopProjects, ls \in SeqsUpTo(LotElements, MaxLots) :
          doc = [BaseDoc EXCEPT !.project = pr, !.lots = ls]
    \/ \E a \in AmountNodes : doc = [BaseDoc EXCEPT !.total_amount = a]
    \/ \E ls \in {BaseDoc.lots, TwinLots},
          rs \in SeqsUpTo(LotResultElements, MaxLotResults) :
          doc = [BaseDoc EXCEPT !.lots = ls, !.lot_results = rs]
    \/ \E ts \in SeqsUpTo(TenderElements, MaxEntities),
          ps \in SeqsUpTo(PartyElements, MaxEntities),
          os \in SeqsUpTo(WinnerOrgElements, MaxEntities) :
          doc = [BaseDoc EXCEPT !.tenders = ts, !.parties = ps, !.orgs = os]
    \/ \E c \in ContractingParties, os \in SeqsUpTo(BuyerOrgElements, MaxEntities) :
          doc = [BaseDoc EXCEPT !.cp = c, !.orgs = os]
    \/ \E n \in NoticeIds : doc = [BaseDoc EXCEPT !.header = HeaderOf(n)]
    \/ doc = MalformedDoc

-----------------------------------------------------------------------------
(* extract_single_notice, step by step *)

\* The batch runner's variables while the extractor alone is run.
BatchIdle ==
    /\ zip_file = [open |-> "ok", entries |-> <<>>]
    /\ bpc = "idle"
    /\ xml_files = <<>>
    /\ i = 1
    /\ successful_count = 0
    /\ failed_count = 0
    /\ failed_files = <<>>
    /\ output_dir = {}
    /\ errors = <<>>
    /\ handled = <<>>
    /\ ret = <<>>

InitExtract ==
    /\ IsDocument(xml_content)
    /\ pc = "start"
    /\ notice = NoNotice
    /\ lr_index = 1
    /\ BatchIdle

\* Line 16: etree.fromstring raises on bytes that are not well-formed XML.
ParseDocument ==
    /\ pc = "start"
    /\ pc' = IF xml_content.wellformed THEN "parsed" ELSE "raised"
    /\ UNCHANGED <<xml_content, notice, lr_index>>
    /\ UNCHANGED bvars

\* Lines 45-122.
ExtractSections ==
    /\ pc = "parsed"
    /\ LET s == Sections(xml_content)
       IN  IF s.raised
           THEN pc' = "raised" /\ notice' = notice
           ELSE pc' = "lot_results" /\ notice' = s.value
    /\ UNCHANGED <<xml_content, lr_index>>
    /\ UNCHANGED bvars

\* Lines 125-155: one iteration of the loop over the lot results.
ExtractLotResult ==
    /\ pc = "lot_results"
    /\ lr_index <= Len(xml_content.lot_results)
    /\ LET r == LotResultRecord(xml_content, xml_content.lot_results[lr_index])
       IN  IF r.raised
           THEN pc' = "raised" /\ notice' = notice /\ lr_index' = lr_index
           ELSE /\ pc' = pc
                /\ notice' = [notice EXCEPT !.financial.lot_results =
                                               Append(@, r.value)]
                /\ lr_index' = lr_index + 1
    /\ UNCHANGED xml_content
    /\ UNCHANGED bvars

\* Line 157.
ReturnNotice ==
    /\ pc = "lot_results"
    /\ lr_index > Len(xml_content.lot_results)
    /\ pc' = "returned"
    /\ UNCHANGED <<xml_content, notice, lr_index>>
    /\ UNCHANGED bvars

NextExtract ==
    \/ ParseDocument
    \/ ExtractSections
    \/ ExtractLotResult
    \/ ReturnNotice

SpecExtract == InitExtract /\ [][NextExtract]_vars

-----------------------------------------------------------------------------
(* process_zip_to_json                                                     *)
(*                                                                         *)
(* An entry name is a text whose tokens are characters, "/" and a suffix   *)
(* such as ".xml".  zip_file.open is "ok", "badzip" (ZipFile raises        *)
(* BadZipFile) or "oserror" (it raises another exception).                 *)
(***************************************************************************)

ZipPath == <<"z", ".zip">>

Suffixes == {".xml", ".txt", ".zip", ".json"}

\* f.endswith('.xml'), line 183
EndsWithXml(name) == name # <<>> /\ name[Len(name)] = ".xml"

\* A variant of XmlFiles without the '.xml' filter.
AllFiles(names) == names

\* Line 183: the names of namelist() that end in '.xml', in archive order.
XmlFiles(names) == SelectSeq(names, EndsWithXml)

\* namelist(): the entries' names in archive order
NameList(entries) == [j \in 1..Len(entries) |-> entries[j].name]

\* The final path component of a name.
RECURSIVE FinalComponent(_)
FinalComponent(name) ==
    IF \E j \in DOMAIN name : name[j] = "/"
    THEN FinalComponent(Tail(name))
    ELSE name

\* Path(xml_filename).stem, line 203
Stem(name) ==
    LET last == FinalComponent(name)
    IN  IF Len(last) > 1 /\ last[Len(last)] \in Suffixes
        THEN SubSeq(last, 1, Len(last) - 1)
        ELSE last

\* Lines 198-204.
JsonFilename(notice_data, xml_filename) ==
    LET notice_id == notice_data.header.notice_id
    IN  IF notice_id # None THEN notice_id[1] \o <<".json">>
        ELSE Stem(xml_filename) \o <<".json">>

\* zip_ref.open(name), line 191: a name resolves to the last entry carrying it.
EntryNamed(entries, name) ==
    entries[CHOOSE j \in DOMAIN entries :
                /\ entries[j].name = name
                /\ \A k \in DOMAIN entries : entries[k].name = name => k <= j]

\* open(json_path, 'w') and json.dump, lines 207-209: the file replaces any
\* file of that name.
WriteFile(dir, file) == {f \in dir : f.name # file.name} \cup {file}

\* A variant of ArchiveErrorResult that does not name the archive.
ArchiveErrorUnnamed == <<0, 0, <<>>>>

\* Lines 225 and 228.
ArchiveErrorResult == <<0, 0, <<ZipPath>>>>

\* Lines 232-237.
WriteManifest(dir, failed) ==
    IF failed # <<>>
    THEN WriteFile(dir, [name |-> <<"failed_files", ".txt">>, by |-> 0, data |-> failed])
    ELSE dir

EntryNames ==
    {<<"A", ".xml">>, <<"d", "/", "A", ".xml">>, <<"B", ".txt">>}

\* What an entry holds, by label: a document without notice id, with notice
\* id A or B, bytes that are not well-formed XML, or bytes whose read fails
\* (bad CRC).
EntryContents == {"no_id", "id_A", "id_B", "malformed", "corrupt"}

\* zip_ref.open(...).read(), lines 191-192
Readable(content) == content # "corrupt"

\* The document the bytes of an entry parse to.
DocOf(content) ==
    CASE content = "no_id" -> [BaseDoc EXCEPT !.header = HeaderOf(NoNode)]
      [] content = "id_A" -> [BaseDoc EXCEPT !.header = HeaderOf(Node(<<"A">>))]
      [] content = "id_B" -> [BaseDoc EXCEPT !.header = HeaderOf(Node(<<"B">>))]
      [] OTHER -> MalformedDoc

Entries == {[name |-> n, content |-> c] : n \in EntryNames, c \in EntryContents}

Archives(max_entries) ==
    {[open |-> "ok", entries |-> es] : es \in SeqsUpTo(Entries, max_entries)}
    \cup {[open |-> o, entries |-> <<>>] : o \in {"badzip", "oserror"}}

\* The extractor's variables while the batch runner is run.
ExtractIdle ==
    /\ xml_content = MalformedDoc
    /\ pc = "idle"
    /\ notice = NoNotice
    /\ lr_index = 1

\* Lines 172-178.
InitBatch ==
    /\ zip_file \in Archives(MaxEntries)
    /\ bpc = "open"
    /\ xml_files = <<>>
    /\ i = 1
    /\ successful_count = 0
    /\ failed_count = 0
    /\ failed_files = <<>>
    /\ output_dir = {}
    /\ errors = <<>>
    /\ handled = <<>>
    /\ ret = <<>>
    /\ ExtractIdle

\* Lines 181-186: the archive opens.
OpenArchive ==
    /\ bpc = "open"
    /\ zip_file.open = "ok"
    /\ xml_files' = XmlFiles(NameList(zip_file.entries))
    /\ bpc' = "loop"
    /\ UNCHANGED <<zip_file, i, successful_count, failed_count, failed_files,
                   output_dir, errors, handled, ret>>
    /\ UNCHANGED evars

\* Lines 223-228: the archive does not open.
ArchiveUnreadable ==
    /\ bpc = "open"
    /\ zip_file.open # "ok"
    /\ errors' = Append(errors, [kind |-> "archive", name |-> ZipPath])
    /\ ret' = ArchiveErrorResult
    /\ bpc' = "returned"
    /\ UNCHANGED <<zip_file, xml_files, i, successful_count, failed_count,
                   failed_files, output_dir, handled>>
    /\ UNCHANGED evars

\* Lines 217-221: the handler of a failed entry.
EntryFailed(xml_filename) ==
    /\ failed_count' = failed_count + 1
    /\ failed_files' = Append(failed_files, xml_filename)
    /\ errors' = Append(errors, [kind |-> "entry", name |-> xml_filename])
    /\ UNCHANGED <<successful_count, output_dir>>

\* Lines 207-211: the record is written and counted.
EntrySaved(xml_filename, notice_data) ==
    /\ output_dir' = WriteFile(output_dir,
                               [name |-> JsonFilename(notice_data, xml_filename),
                                by |-> i,
                                data |-> notice_data])
    /\ successful_count' = successful_count + 1
    /\ UNCHANGED <<failed_count, failed_files, errors>>

\* Lines 188-221: one iteration of the loop over xml_files.  Reading the
\* entry, extracting it and writing its record can each raise; writing fails
\* when the operating system refuses the file (write_ok = FALSE).
ProcessEntry ==
    /\ bpc = "loop"
    /\ i <= Len(xml_files)
    /\ \E write_ok \in BOOLEAN :
         LET xml_filename == xml_files[i]
             content == EntryNamed(zip_file.entries, xml_filename).content
             extracted == extract_single_notice(DocOf(content))
             outcome == IF ~Readable(content) THEN "read_failed"
                        ELSE IF extracted.raised THEN "extract_failed"
                        ELSE IF ~write_ok THEN "write_failed"
                        ELSE "saved"
         IN  /\ IF outcome = "saved"
                THEN EntrySaved(xml_filename, extracted.value)
                ELSE EntryFailed(xml_filename)
             /\ handled' = Append(handled, [name |-> xml_filename, outcome |-> outcome])
    /\ i' = i + 1
    /\ UNCHANGED <<zip_file, bpc, xml_files, ret>>
    /\ UNCHANGED evars

\* Lines 230-239.
Finish ==
    /\ bpc = "loop"
    /\ i > Len(xml_files)
    /\ output_dir' = WriteManifest(output_dir, failed_files)
    /\ ret' = <<successful_count, failed_count, failed_files>>
    /\ bpc' = "returned"
    /\ UNCHANGED <<zip_file, xml_files, i, successful_count, failed_count,
                   failed_files, errors, handled>>
    /\ UNCHANGED evars

NextBatch ==
    \/ OpenArchive
    \/ ArchiveUnreadable
    \/ ProcessEntry
    \/ Finish

SpecBatch == InitBatch /\ [][NextBatch]_vars

-----------------------------------------------------------------------------
(* Properties of extract_single_notice (checked under SpecExtract) *)

Returned == pc = "returned"

\* The first element of elems whose node-set `key` holds id, as a sequence
\* of length 0 or 1.
FirstWith(elems, key, id) ==
    FirstChild(SelectSeq(elems, LAMBDA e : id \in Range(e[key])))

\* The text of an element's first node `f`, absent when there is none or it
\* is empty.
FieldText(elem, f) ==
    IF elem[f] = NoNode \/ elem[f][1] = EmptyText THEN None ELSE Some(elem[f][1])

\* The lot result's tender reference ("" when it has none).
TenderRef(lot_result) ==
    IF lot_result.tender = NoNode THEN EmptyText ELSE lot_result.tender[1]

\* The organizations some chain tender -> tendering party -> organization
\* leads to from tender id tid.
ChainOrgs(doc, tid) ==
    {o \in DOMAIN doc.orgs :
        \E t \in DOMAIN doc.tenders, q \in DOMAIN doc.parties :
            /\ tid \in Range(doc.tenders[t].id)
            /\ Range(doc.tenders[t].party) \cap Range(doc.parties[q].id) # {}
            /\ Range(doc.parties[q].org) \cap Range(doc.orgs[o].id) # {}}

\* No identifier of the chain from tid is carried by two entities.
ChainUnique(doc, tid) ==
    /\ Cardinality({t \in DOMAIN doc.tenders : tid \in Range(doc.tenders[t].id)}) = 1
    /\ \A q1, q2 \in DOMAIN doc.parties :
          doc.parties[q1].id = doc.parties[q2].id => q1 = q2
    /\ \A o1, o2 \in DOMAIN doc.orgs : doc.orgs[o1].id = doc.orgs[o2].id => o1 = o2

AmountOk(ns) == ns = NoNode \/ ns[1] = EmptyText \/ FloatParses(ns[1])

\* C9: lots and financial.lot_results keep document order, one output
\* element per source element, the j-th built from the j-th, with no
\* sorting and no deduplication; while the loop runs, lot_results is the
\* prefix built so far.
C9_SequencesKeepDocumentOrder ==
    pc \in {"lot_results", "returned"} =>
        /\ Len(notice.lots) = Len(xml_content.lots)
        /\ \A j \in DOMAIN xml_content.lots :
              /\ notice.lots[j].id = FieldText(xml_content.lots[j], "id")
              /\ notice.lots[j].description =
                    (IF xml_content.lots[j].project = <<>> THEN None
                     ELSE FieldText(xml_content.lots[j].project[1], "description"))
        /\ Len(notice.financial.lot_results) = lr_index - 1
        /\ Returned => Len(notice.financial.lot_results) = Len(xml_content.lot_results)
        /\ \A j \in DOMAIN notice.financial.lot_results :
              /\ notice.financial.lot_results[j].lot_id =
                    FieldText(xml_content.lot_results[j], "lot_id")
              /\ (notice.financial.lot_results[j].higher_tender_amount = None)
                    <=> (FieldText(xml_content.lot_results[j], "higher") = None)

\* C9 witness: a returned record of a document with two lots of the same
\* identifier and different content.
C9_Witness ==
    /\ Returned
    /\ Len(xml_content.lots) = 2
    /\ xml_content.lots[1].id = xml_content.lots[2].id
    /\ notice.lots[1].description # notice.lots[2].description
    /\ Len(notice.financial.lot_results) = 2
    /\ notice.financial.lot_results[1].lot_id = notice.financial.lot_results[2].lot_id

\* C3: a lot result whose tender reference resolves through
\* tender -> tendering party -> organization (each identifier carried by one
\* entity) has winner_name equal to the organization's name; when the
\* reference is absent or a hop finds no match, winner_name is absent and the
\* extractor does not raise on that lot result.
C3_WinnerNameResolution ==
    /\ Returned =>
          \A j \in DOMAIN xml_content.lot_results :
              LET tid == TenderRef(xml_content.lot_results[j])
                  reached == ChainOrgs(xml_content, tid)
                  winner == notice.financial.lot_results[j].winner_name
              IN  /\ (tid # EmptyText /\ reached # {} /\ ChainUnique(xml_content, tid))
                        => \A o \in reached :
                              winner = FieldText(xml_content.orgs[o], "name")
                  /\ (tid = EmptyText \/ reached = {}) => winner = None
    /\ (pc = "raised" /\ notice # NoNotice) =>
          LET lot_result == xml_content.lot_results[lr_index]
              tid == TenderRef(lot_result)
          IN  ~ /\ tid = EmptyText \/ ChainOrgs(xml_content, tid) = {}
                /\ AmountOk(lot_result.higher)
                /\ AmountOk(lot_result.lower)

\* The winner by first match at every hop: the first tender with the id,
\* the first tendering party with that tender's party id, the first
\* organization with that party's organization id.
FirstMatchWinner(doc, tid) ==
    LET tender == FirstWith(doc.tenders, "id", tid)
        party == IF tender = <<>> \/ tender[1].party = NoNode THEN <<>>
                 ELSE FirstWith(doc.parties, "id", tender[1].party[1])
        org == IF party = <<>> \/ party[1].org = NoNode THEN <<>>
               ELSE FirstWith(doc.orgs, "id", party[1].org[1])
    IN  IF org = <<>> THEN None ELSE FieldText(org[1], "name")

\* C4: with entities sharing an identifier, every hop takes the first match
\* in document order: winner_name is the name of the organization reached by
\* first matches, and the contracting-party fields are those of the first
\* organization with the contracting party's identifier.
C4_FirstMatchTieBreak ==
    Returned =>
        /\ \A j \in DOMAIN xml_content.lot_results :
              LET tid == TenderRef(xml_content.lot_results[j])
              IN  tid # EmptyText =>
                     notice.financial.lot_results[j].winner_name =
                        FirstMatchWinner(xml_content, tid)
        /\ notice.contracting_party # EmptyDict =>
              LET first == FirstWith(xml_content.orgs, "id",
                                     XPathString(Nodes(xml_content.cp, "org_id")))
              IN  first # <<>> =>
                     /\ notice.contracting_party[1].name = FieldText(first[1], "name")
                     /\ notice.contracting_party[1].city = FieldText(first[1], "city")

\* No identifier spliced into an XPath expression carries an apostrophe.
LiteralsOk(doc) ==
    /\ XPathLiteralOk(XPathString(Nodes(doc.cp, "org_id")))
    /\ \A j \in DOMAIN doc.lot_results : XPathLiteralOk(TenderRef(doc.lot_results[j]))

\* C5: a numeric field whose source text is empty or not a number is absent
\* in the record, never zero, and no exception escapes the extractor because
\* of it.
C5_NumericFieldsDegradeToAbsent ==
    /\ (xml_content.wellformed /\ LiteralsOk(xml_content)) => pc # "raised"
    /\ Returned =>
          /\ ~AmountOk(xml_content.total_amount) \/ FieldText(xml_content, "total_amount") = None
                => notice.financial.total_amount = None
          /\ \A j \in DOMAIN xml_content.lot_results :
                /\ FieldText(xml_content.lot_results[j], "higher") = None
                      => notice.financial.lot_results[j].higher_tender_amount = None
                /\ FieldText(xml_content.lot_results[j], "lower") = None
                      => notice.financial.lot_results[j].lower_tender_amount = None

\* C6: contracting_party is populated only when the contracting-party
\* section carries an organization identifier that resolves to an
\* organization; otherwise it is the empty dict.
C6_ContractingPartyOnlyWhenResolved ==
    Returned =>
        LET cp_id == XPathString(Nodes(xml_content.cp, "org_id"))
            resolved == /\ cp_id # EmptyText
                        /\ \E o \in DOMAIN xml_content.orgs :
                              cp_id \in Range(xml_content.orgs[o].id)
        IN  ~resolved => notice.contracting_party = EmptyDict

ProjectFields == {"id", "name", "description", "procurement_type", "cpv_code"}

LocationFields == {"street", "city", "postal_code", "nuts_code", "country_code"}

\* C8: a project field whose source node is missing from the top-level
\* procurement project (or whose project is missing) is absent, never the
\* empty string and never the value of a lot's nested project.
C8_ProjectFromTopLevelOnly ==
    Returned =>
        LET missing(f) == \/ xml_content.project = <<>>
                          \/ xml_content.project[1][f] = NoNode
        IN  /\ \A f \in ProjectFields :
                  /\ notice.project[f] # Some(EmptyText)
                  /\ missing(f) => notice.project[f] = None
            /\ \A f \in LocationFields :
                  /\ notice.project.location[f] # Some(EmptyText)
                  /\ missing(f) => notice.project.location[f] = None

-----------------------------------------------------------------------------
(* Properties of process_zip_to_json (checked under SpecBatch) *)

BatchReturned == bpc = "returned"

\* The names of the archive's entries that end in '.xml', in archive order.
RECURSIVE XmlEntryNames(_)
XmlEntryNames(entries) ==
    IF entries = <<>> THEN <<>>
    ELSE LET name == Head(entries).name
         IN  (IF name[Len(name)] = ".xml" THEN <<name>> ELSE <<>>)
             \o XmlEntryNames(Tail(entries))

\* The names of the iterations that failed, in order.
RECURSIVE FailedNames(_)
FailedNames(history) ==
    IF history = <<>> THEN <<>>
    ELSE (IF Head(history).outcome # "saved" THEN <<Head(history).name>> ELSE <<>>)
         \o FailedNames(Tail(history))

DistinctNames(entries) ==
    \A j, k \in DOMAIN entries : entries[j].name = entries[k].name => j = k

\* The name the record of the j-th handled entry is to be stored under.
RecordName(j) ==
    LET name == handled[j].name
        doc == DocOf(EntryNamed(zip_file.entries, name).content)
        notice_id == FieldText(doc.header, "notice_id")
    IN  IF notice_id # None THEN notice_id[1] \o <<".json">>
        ELSE Stem(name) \o <<".json">>

\* C2: one output record per saved entry, named <notice_id>.json when the
\* notice id is present and <source-entry-stem>.json otherwise: on return
\* the number of records in the output directory equals the success count
\* and every saved entry's own record is still there under its name.
\* (Stated for archives whose entries carry different names.)
C2_OneRecordPerSavedEntry ==
    (BatchReturned /\ zip_file.open = "ok" /\ DistinctNames(zip_file.entries)) =>
        /\ Cardinality({f \in output_dir : f.by > 0}) = ret[1]
        /\ \A j \in DOMAIN handled :
              handled[j].outcome = "saved" =>
                 \E f \in output_dir : f.by = j /\ f.name = RecordName(j)

\* C7: when the archive cannot be opened the run fails at once: no entry is
\* handled, nothing is written to the output directory (no record, no
\* manifest), and the failure is reported once, naming the archive.
C7_UnreadableArchiveFailsOnce ==
    (BatchReturned /\ zip_file.open # "ok") =>
        /\ handled = <<>>
        /\ output_dir = {}
        /\ ret[1] = 0
        /\ ret[3] = <<ZipPath>>
        /\ errors = <<[kind |-> "archive", name |-> ZipPath]>>

\* C7 witness: a run on an archive that is not a ZIP file has returned.
C7_Witness ==
    /\ BatchReturned
    /\ zip_file.open = "badzip"
    /\ ret[3] = <<ZipPath>>

\* C10: in every returned summary the failure count equals the length of
\* the failure list.
C10_FailureCountMatchesList ==
    BatchReturned => ret[2] = Len(ret[3])

=============================================================================
